---------------------------- MODULE Spec2Model ----------------------------
(***************************************************************************)
(* PrepMate-AI backend: the interview session state machine of             *)
(* backend/core/interview_manager.py behind the HTTP handlers of           *)
(* backend/routers/interview.py.                                           *)
(*                                                                         *)
(* The manager runs on a single-threaded event loop.  A coroutine runs     *)
(* without interruption from one await to the next, so every action below  *)
(* is one such segment: from the call (or the resumption of an await on a  *)
(* generator collaborator) to the next await or to the return.  Coroutines *)
(* suspended at an await are the frames held in tasks.                     *)
(***************************************************************************)
EXTENDS Integers, Sequences, FiniteSets, TLC

(***************************************************************************)
(* Bounds of the model.                                                    *)
(***************************************************************************)
\* settings.MAX_QUESTIONS is read from the environment (default 10); the
\* model runs the interview with a short cap.
MAX_QUESTIONS == 2
\* session ids generate_session_id hands out over a run
MaxSessions == 2
\* coroutines that may be suspended at a generator call at once
MaxTasks == 2

\* a call that may add an answer or a question is accepted while the sessions
\* alive hold fewer of them than this, the pending ones counted
MaxAnswers == MAX_QUESTIONS + 1
MaxQuestionsLen == MAX_QUESTIONS + 1
\* the answers recorded over a run in which every reply of Replies is tried
MaxParsed == MAX_QUESTIONS

SessionIds == 1..MaxSessions
Tasks == 1..MaxTasks
QuestionIds == 0..MaxQuestionsLen

(***************************************************************************)
(* Values.  Python's None, and datetime.now(), are records so that they    *)
(* can be compared with the records they stand beside.                     *)
(***************************************************************************)
None == [none |-> TRUE]
Now == [now |-> TRUE]

\* role and difficulty are strings read character by character by the
\* validators, so they are sequences of characters
StartRequests ==
    { [role |-> <<"d", "e", "v">>,
       difficulty |-> <<"H", "a", "r", "d">>,
       topics |-> <<"algo", "db">>],
      [role |-> <<" ">>,
       difficulty |-> <<"e", "x", "t", "r", "a">>,
       topics |-> <<>>] }

\* answers a caller may submit
AnswerTexts == {"ans"}
\* what the Feedback Generator may return
FeedbackResults == { [feedback |-> "fb", score |-> 7] }

VARIABLES
    sessions,   \* InterviewManager.sessions: the ids in the store
    heap,       \* the InterviewSession objects alive, by session id
    nextId,     \* session ids generated so far
    tasks,      \* the coroutine suspended in each slot, or Idle
    ret         \* what the segment just run returned to its caller, or NoRet

vars == <<sessions, heap, nextId, tasks, ret>>

Idle == [op |-> "idle", pc |-> "idle", sid |-> 0]
NoRet == [op |-> "none"]

(***************************************************************************)
(* core/utils.py                                                           *)
(***************************************************************************)
UpperCase == <<"A", "B", "C", "D", "E", "F", "G", "H", "I", "J", "K", "L", "M",
               "N", "O", "P", "Q", "R", "S", "T", "U", "V", "W", "X", "Y", "Z">>
LowerCase == <<"a", "b", "c", "d", "e", "f", "g", "h", "i", "j", "k", "l", "m",
               "n", "o", "p", "q", "r", "s", "t", "u", "v", "w", "x", "y", "z">>

\* str.lower()
lower(str) ==
    [i \in 1..Len(str) |->
        IF \E k \in 1..26 : UpperCase[k] = str[i]
        THEN LowerCase[CHOOSE k \in 1..26 : UpperCase[k] = str[i]]
        ELSE str[i]]

Whitespace == {" ", "\t", "\n"}

\* str.strip()
strip(str) ==
    LET keep == {i \in 1..Len(str) : str[i] \notin Whitespace}
    IN  IF keep = {} THEN <<>>
        ELSE LET lo == CHOOSE i \in keep : \A j \in keep : i <= j
                 hi == CHOOSE i \in keep : \A j \in keep : j <= i
             IN  SubSeq(str, lo, hi)

validate_difficulty(difficulty) ==
    lower(difficulty) \in { <<"e", "a", "s", "y">>,
                            <<"m", "e", "d", "i", "u", "m">>,
                            <<"h", "a", "r", "d">> }

validate_role(role) == Len(role) > 0 /\ Len(strip(role)) > 0

(***************************************************************************)
(* class InterviewSession                                                  *)
(***************************************************************************)
\* faulty variant: the id counter starts at 1
InterviewSession_counts_from_one(session_id, role, difficulty, topics) ==
    [ session_id |-> session_id,
      role |-> role,
      difficulty |-> difficulty,
      topics |-> topics,
      questions |-> <<>>,
      answers |-> <<>>,
      current_question_id |-> 1,
      current_question_index |-> 0,
      scores |-> <<>>,
      state |-> "not_started",
      created_at |-> Now,
      completed_at |-> None ]

InterviewSession(session_id, role, difficulty, topics) ==
    [ session_id |-> session_id,
      role |-> role,
      difficulty |-> difficulty,
      topics |-> topics,
      questions |-> <<>>,
      answers |-> <<>>,
      current_question_id |-> 0,
      current_question_index |-> 0,
      scores |-> <<>>,
      state |-> "not_started",
      created_at |-> Now,
      completed_at |-> None ]

\* faulty variant: the id counter is not advanced
Session_add_question_same_id(s, question) ==
    [s EXCEPT
        !.questions = Append(@,
            [ id |-> s.current_question_id,
              question |-> question,
              topic |-> IF s.topics # <<>>
                        THEN s.topics[(s.current_question_id % Len(s.topics)) + 1]
                        ELSE "general" ])]

\* faulty variant: the topic follows the number of answers, as the topic
\* next_question reports does
Session_add_question_answers_topic(s, question) ==
    [s EXCEPT
        !.questions = Append(@,
            [ id |-> s.current_question_id,
              question |-> question,
              topic |-> IF s.topics # <<>>
                        THEN s.topics[(Len(s.answers) % Len(s.topics)) + 1]
                        ELSE "general" ]),
        !.current_question_id = @ + 1]

Session_add_question(s, question) ==
    LET question_id == s.current_question_id
    IN  [s EXCEPT
            !.questions = Append(@,
                [ id |-> question_id,
                  question |-> question,
                  topic |-> IF s.topics # <<>>
                            THEN s.topics[(question_id % Len(s.topics)) + 1]
                            ELSE "general" ]),
            !.current_question_id = @ + 1]

Session_add_answer(s, question_id, answer, feedback, score) ==
    [s EXCEPT
        !.answers = Append(@,
            [ question_id |-> question_id,
              answer |-> answer,
              feedback |-> feedback,
              score |-> score,
              timestamp |-> Now ]),
        !.scores = Append(@, score)]

\* faulty variant: a cursor past the end reads the last question
Session_get_current_question_last(s) ==
    IF s.current_question_index < Len(s.questions)
    THEN s.questions[s.current_question_index + 1]
    ELSE IF s.questions # <<>> THEN s.questions[Len(s.questions)] ELSE None

Session_get_current_question(s) ==
    IF s.current_question_index < Len(s.questions)
    THEN s.questions[s.current_question_index + 1]
    ELSE None

\* faulty variant: the cursor is left where it is
Session_move_to_next_question_stays(s) == s

Session_move_to_next_question(s) ==
    [s EXCEPT !.current_question_index = @ + 1]

\* faulty variant: the questions are counted, not the answers
Session_is_complete_by_questions(s) == Len(s.questions) >= MAX_QUESTIONS

\* faulty variant: > for >=
Session_is_complete_strict(s) == Len(s.answers) > MAX_QUESTIONS

Session_is_complete(s) == Len(s.answers) >= MAX_QUESTIONS

\* faulty variant: the completion time is set and the state is not
Session_mark_complete_time_only(s) == [s EXCEPT !.completed_at = Now]

Session_mark_complete(s) ==
    [s EXCEPT !.state = "completed", !.completed_at = Now]

\* progress_percentage is a float; the model keeps the quotient as the pair
\* it is computed from
Session_get_progress(s) ==
    [ total_questions |-> MAX_QUESTIONS,
      answered_questions |-> Len(s.answers),
      remaining_questions |-> MAX_QUESTIONS - Len(s.answers),
      current_question_number |-> Len(s.answers) + 1,
      progress_percentage |-> <<Len(s.answers) * 100, MAX_QUESTIONS>> ]


(***************************************************************************)
(* Exceptions and what a call hands back.  A call either returns a value   *)
(* or raises; raised is None for a call that returned.                     *)
(***************************************************************************)
ValueError(msg) == [exc |-> "ValueError", msg |-> msg]
\* whatever a generator collaborator raises (network, provider, ...)
GeneratorError == [exc |-> "Exception", msg |-> "generator failed"]
HTTPException(status_code, detail) ==
    [exc |-> "HTTPException", status_code |-> status_code, detail |-> detail]

SessionNotFound == ValueError("Session not found")
QuestionNotFound == ValueError("Question not found")

Returned(value) == [raised |-> None, value |-> value]
Raised(e) == [raised |-> e, value |-> None]

(***************************************************************************)
(* routers/interview.py: what each handler makes of the manager's outcome. *)
(* HTTPException is an Exception, so a handler whose only clause is        *)
(* "except Exception" also catches the HTTPException its own try block     *)
(* raises.                                                                 *)
(***************************************************************************)
\* try: return manager call; except Exception as e: HTTPException(500)
route_plain(outcome) ==
    IF outcome.raised = None
    THEN [status_code |-> 200, body |-> outcome.value]
    ELSE [status_code |-> 500, body |-> outcome.raised.msg]

\* GET /current/{session_id}
route_get_current_question(outcome) ==
    LET inner == IF outcome.raised # None THEN outcome
                 ELSE IF outcome.value = None
                      THEN Raised(HTTPException(404, "No current question found"))
                      ELSE outcome
    IN  IF inner.raised = None
        THEN [status_code |-> 200, body |-> inner.value]
        ELSE [status_code |-> 500,
              body |-> IF inner.raised.exc = "HTTPException"
                       THEN inner.raised.detail ELSE inner.raised.msg]

\* GET /interview/question: "except HTTPException: raise" comes first
route_public_get_current_question(outcome) ==
    LET inner == IF outcome.raised # None THEN outcome
                 ELSE IF outcome.value = None
                      THEN Raised(HTTPException(404, "No current question found"))
                      ELSE outcome
    IN  IF inner.raised = None
        THEN [status_code |-> 200, body |-> inner.value]
        ELSE IF inner.raised.exc = "HTTPException"
             THEN [status_code |-> inner.raised.status_code,
                   body |-> inner.raised.detail]
             ELSE [status_code |-> 500, body |-> inner.raised.msg]

\* DELETE /session/{session_id}; the manager's delete_session never raises
route_delete_session(deleted) ==
    LET inner == IF ~deleted
                 THEN Raised(HTTPException(404, "Session not found"))
                 ELSE Returned([message |-> "Session deleted successfully"])
    IN  IF inner.raised = None
        THEN [status_code |-> 200, body |-> inner.value]
        ELSE [status_code |-> 500, body |-> inner.raised.detail]

\* the record of a finished call: the handler, the session it worked on, the
\* arguments it was called with, the manager's outcome and the HTTP response
\* made of it
Response(op, sid, args, outcome, http) ==
    [op |-> op, sid |-> sid, args |-> args, outcome |-> outcome, http |-> http]

\* the AnswerRequest body besides its session_id
answer_request(question_id, answer) ==
    [question_id |-> question_id, answer |-> answer]

(***************************************************************************)
(* Frames, and the session objects they keep alive.  A suspended coroutine *)
(* holds a reference to its InterviewSession, so the object outlives its   *)
(* removal from the store for as long as a frame refers to it.             *)
(***************************************************************************)
FreeTask(t) == tasks[t] = Idle /\ \A u \in 1..(t - 1) : tasks[u] # Idle

Collect(h, store, frames) ==
    LET live == store \cup {frames[t].sid : t \in {u \in Tasks : frames[u] # Idle}}
    IN  [sid \in (DOMAIN h) \cap live |-> h[sid]]

RECURSIVE total(_, _)
total(f, S) ==
    IF S = {} THEN 0
    ELSE LET x == CHOOSE y \in S : TRUE IN f[x] + total(f, S \ {x})

Suspended == {t \in Tasks : tasks[t] # Idle}

\* the model accepts a call that may grow a session only while there is room
AnswersRoom ==
    total([sid \in DOMAIN heap |-> Len(heap[sid].answers)], DOMAIN heap)
        + Cardinality(Suspended) < MaxAnswers
QuestionsRoom ==
    total([sid \in DOMAIN heap |-> Len(heap[sid].questions)], DOMAIN heap)
        + Cardinality(Suspended) < MaxQuestionsLen
\* a failed generator call moves the cursor and adds nothing
CursorRoom(sid) ==
    heap[sid].current_question_index + Cardinality(Suspended) < MaxQuestionsLen

Init ==
    /\ sessions = {}
    /\ heap = << >>
    /\ nextId = 0
    /\ tasks = [t \in Tasks |-> Idle]
    /\ ret = NoRet

(***************************************************************************)
(* chains/question_chain.py.  The texts the generator may answer a request *)
(* with.  The mock generator's text is made of its arguments; the model    *)
(* keeps them as a record.  Nothing in the manager reads a question text.  *)
(***************************************************************************)
generate_question(role, difficulty, topic, previous_questions) ==
    { [ difficulty |-> difficulty,
        role |-> role,
        topic |-> topic,
        previous |-> previous_questions ] }

(***************************************************************************)
(* chains/feedback_chain.py.  A text is a sequence of tokens: whitespace,  *)
(* the code fence, the word json, and the pieces of prose or of a JSON     *)
(* document between them.  None is the empty sequence where a text or a    *)
(* score may be missing (both are falsy).                                  *)
(***************************************************************************)
\* the code fence, three backquotes
Fence == "<fence>"

\* what json.loads builds
JObject(members) == [kind |-> "dict", members |-> members]
JList(items) == [kind |-> "list", items |-> items]
JString(text) == [kind |-> "str", text |-> text]
JNumber(number) == [kind |-> "number", number |-> number]
JNull == [kind |-> "NoneType"]

JSONDecodeError == [exc |-> "JSONDecodeError", msg |-> "Expecting value"]
TypeError == [exc |-> "TypeError", msg |-> "bad operand type"]
FloatError == ValueError("could not convert string to float")

\* the texts that are JSON documents, each with the value json.loads makes
\* of it; every other text is rejected
Documents ==
    << << <<"{\"score\": 8, \"feedback\": \"good\"}">>,
          JObject([score |-> JNumber(8), feedback |-> JString(<<"good">>)]) >>,
       << <<"{\"score\": 15, \"feedback\": \"good\"}">>,
          JObject([score |-> JNumber(15), feedback |-> JString(<<"good">>)]) >>,
       << <<"{\"score\": \"8\"}">>,
          JObject([score |-> JString(<<"8">>)]) >>,
       << <<"{\"score\": \"high\", \"feedback\": \"good\"}">>,
          JObject([score |-> JString(<<"high">>),
                   feedback |-> JString(<<"good">>)]) >>,
       << <<"{\"score\": null, \"feedback\": \"good\"}">>,
          JObject([score |-> JNull, feedback |-> JString(<<"good">>)]) >>,
       << <<"{\"scores\": {\"overall\": 6}, \"detailed_feedback\": \"fine\"}">>,
          JObject([scores |-> JObject([overall |-> JNumber(6)]),
                   detailed_feedback |-> JString(<<"fine">>)]) >>,
       << <<"{\"scores\": {}, \"feedback\": \"\"}">>,
          JObject([scores |-> JObject(<<>>), feedback |-> JString(<<>>)]) >>,
       << <<"{\"scores\": 7, \"feedback\": null}">>,
          JObject([scores |-> JNumber(7), feedback |-> JNull]) >>,
       << <<"{\"feedback\": \"good\"}">>,
          JObject([feedback |-> JString(<<"good">>)]) >>,
       << <<"[\"score\"]">>, JList(<< JString(<<"score">>) >>) >>,
       << <<"\"score\"">>, JString(<<"score">>) >>,
       << <<"8">>, JNumber(8) >>,
       << <<"null">>, JNull >>,
       \* what is left of {"feedback": "use json", "score": 9} when the word
       \* json is taken out of it
       << <<"{\"feedback\": \"use ", "\", \"score\": 9}">>,
          JObject([feedback |-> JString(<<"use", " ">>),
                   score |-> JNumber(9)]) >> >>

json_loads(text) ==
    IF \E d \in 1..Len(Documents) : Documents[d][1] = text
    THEN Returned(Documents[CHOOSE d \in 1..Len(Documents) :
                                Documents[d][1] = text][2])
    ELSE Raised(JSONDecodeError)

\* the numerals float() reads from a string
Numerals == ("8" :> 8) @@ ("15" :> 15)

\* float(x)
float(x) ==
    CASE x.kind = "number" -> Returned(x.number)
      [] x.kind = "str" ->
            IF Len(x.text) = 1 /\ x.text[1] \in DOMAIN Numerals
            THEN Returned(Numerals[x.text[1]])
            ELSE Raised(FloatError)
      [] OTHER -> Raised(TypeError)

\* str(x), of the values that are feedback in Documents
to_str(x) ==
    CASE x.kind = "str" -> x.text
      [] x.kind = "NoneType" -> <<"None">>
      [] x.kind = "number" -> <<ToString(x.number)>>

\* key in data
contains(key, data) ==
    CASE data.kind = "dict" -> Returned(key \in DOMAIN data.members)
      [] data.kind = "list" ->
            Returned(\E i \in 1..Len(data.items) :
                        /\ data.items[i].kind = "str"
                        /\ data.items[i].text = <<key>>)
      [] data.kind = "str" ->
            Returned(\E i \in 1..Len(data.text) : data.text[i] = key)
      [] OTHER -> Raised(TypeError)

\* data[key], key being a string
subscript(data, key) ==
    IF data.kind = "dict" THEN Returned(data.members[key])
    ELSE Raised(TypeError)

\* the statements of a try block in sequence: what follows a statement runs
\* on its value unless it raised
then(outcome, rest(_)) ==
    IF outcome.raised # None THEN outcome ELSE rest(outcome.value)

\* faulty variant: the exception is not caught
except_Exception_reraises(outcome, handler) == outcome

\* try: ... except Exception: handler
except_Exception(outcome, handler) ==
    IF outcome.raised # None THEN handler ELSE outcome

\* score = None; if "score" in data: ... elif "scores" in data and ...
extract_score(data) ==
    then(contains("score", data), LAMBDA has_score :
        IF has_score
        THEN then(subscript(data, "score"), LAMBDA item :
                then(float(item), LAMBDA score : Returned(<<score>>)))
        ELSE then(contains("scores", data), LAMBDA has_scores :
                IF ~has_scores
                THEN Returned(<<>>)
                ELSE then(subscript(data, "scores"), LAMBDA scores :
                        IF scores.kind # "dict"
                        THEN Returned(<<>>)
                        ELSE IF "overall" \in DOMAIN scores.members
                             THEN then(float(scores.members["overall"]),
                                       LAMBDA score : Returned(<<score>>))
                             ELSE Returned(<<5>>))))

\* feedback = None; if "feedback" in data: ... elif "detailed_feedback" ...
extract_feedback(data) ==
    then(contains("feedback", data), LAMBDA has_feedback :
        IF has_feedback
        THEN then(subscript(data, "feedback"), LAMBDA item :
                Returned(to_str(item)))
        ELSE then(contains("detailed_feedback", data), LAMBDA has_detailed :
                IF has_detailed
                THEN then(subscript(data, "detailed_feedback"), LAMBDA item :
                        Returned(to_str(item)))
                ELSE Returned(<<>>)))

\* the try block of generate_feedback
parse_feedback(raw_text) ==
    then(json_loads(raw_text), LAMBDA data :
        then(extract_score(data), LAMBDA score :
            then(extract_feedback(data), LAMBDA feedback :
                Returned([ score |-> IF score # <<>> THEN score[1] ELSE 5,
                           feedback |-> IF feedback # <<>> THEN feedback
                                        ELSE raw_text ]))))

startswith(text, prefix) == text # <<>> /\ text[1] = prefix

\* text.split(sep)[1], of a text in which sep occurs
split_second(text, sep) ==
    LET seps == {i \in 1..Len(text) : text[i] = sep}
        first == CHOOSE i \in seps : \A j \in seps : i <= j
        later == seps \ {first}
        stop == IF later = {} THEN Len(text) + 1
                ELSE CHOOSE i \in later : \A j \in later : i <= j
    IN  SubSeq(text, first + 1, stop - 1)

\* text.replace(old, "")
replace(text, old) == SelectSeq(text, LAMBDA token : token # old)

\* raw_text, from raw.content
unwrap(content) ==
    LET raw_text == strip(content)
    IN  IF startswith(raw_text, Fence)
        THEN strip(replace(strip(split_second(raw_text, Fence)), "json"))
        ELSE raw_text

\* generate_feedback from the model's answer to its return
generate_feedback(content) ==
    LET raw_text == unwrap(content)
    IN  except_Exception(parse_feedback(raw_text),
                         Returned([score |-> 5, feedback |-> raw_text]))

\* A model that answers by the answer it is shown: the answers a caller may
\* submit to it, each with the content of the model's reply
Replies ==
    [ plain |-> <<"{\"score\": 8, \"feedback\": \"good\"}">>,
      fenced |-> <<" ", Fence, "json", "\n",
                   "{\"score\": 8, \"feedback\": \"good\"}", "\n", Fence,
                   "\n">>,
      fence_open |-> <<Fence, "{\"score\": 15, \"feedback\": \"good\"}">>,
      json_word |-> <<Fence, "json", "{\"feedback\": \"use ", "json",
                      "\", \"score\": 9}", Fence>>,
      text_score |-> <<"{\"score\": \"8\"}">>,
      bad_score |-> <<"{\"score\": \"high\", \"feedback\": \"good\"}">>,
      null_score |-> <<"{\"score\": null, \"feedback\": \"good\"}">>,
      overall |-> <<"{\"scores\": {\"overall\": 6}, \"detailed_feedback\": \"fine\"}">>,
      no_overall |-> <<"{\"scores\": {}, \"feedback\": \"\"}">>,
      scores_number |-> <<"{\"scores\": 7, \"feedback\": null}">>,
      only_feedback |-> <<"{\"feedback\": \"good\"}">>,
      list |-> <<"[\"score\"]">>,
      string |-> <<"\"score\"">>,
      number |-> <<"8">>,
      null |-> <<"null">>,
      prose |-> <<"Great", " ", "answer">>,
      prose_fence |-> <<"Here", " ", Fence, "json",
                        "{\"score\": 8, \"feedback\": \"good\"}", Fence>>,
      fenced_prose |-> <<Fence, "json", "\n", "Great", " ", "answer", "\n",
                         Fence>>,
      blank |-> <<" ">> ]

ReplyAnswers == DOMAIN Replies

\* raw = await self.chain.ainvoke({"question": question, "answer": answer})
ainvoke(question, answer) == Replies[answer]

(***************************************************************************)
(* class InterviewManager                                                  *)
(***************************************************************************)
\* faulty variant: the assignment of "in_progress" left out
set_in_progress_left_out(s) == s

\* session.state = "in_progress"
set_in_progress(s) == [s EXCEPT !.state = "in_progress"]

\* start_interview up to its await of generate_question
start_interview(t, request) ==
    /\ ret = NoRet
    /\ FreeTask(t)
    /\ nextId < MaxSessions
    /\ QuestionsRoom
    /\ LET session_id == nextId + 1
           session == set_in_progress(
               InterviewSession(session_id, request.role,
                                request.difficulty, request.topics))
           first_topic == IF request.topics # <<>>
                          THEN request.topics[1] ELSE "general"
           frames == [tasks EXCEPT ![t] =
                        [ op |-> "start_interview",
                          pc |-> "generate_question",
                          sid |-> session_id,
                          request |-> request,
                          topic |-> first_topic,
                          previous_questions |-> <<>> ]]
       IN  /\ nextId' = session_id
           /\ sessions' = sessions \cup {session_id}
           /\ tasks' = frames
           /\ heap' = Collect((session_id :> session) @@ heap, sessions', frames)
           /\ ret' = NoRet

\* start_interview from the generator's answer to its return
start_interview_resume(t) ==
    /\ ret = NoRet
    /\ tasks[t].op = "start_interview"
    /\ LET sid == tasks[t].sid
           frames == [tasks EXCEPT ![t] = Idle]
       IN  /\ tasks' = frames
           /\ UNCHANGED <<sessions, nextId>>
           /\ \/ \E question \in generate_question(heap[sid].role,
                        heap[sid].difficulty, tasks[t].topic,
                        tasks[t].previous_questions) :
                    LET session == Session_add_question(heap[sid], question)
                        question_id == heap[sid].current_question_id
                        result == [ session_id |-> sid,
                                    question |-> question,
                                    question_id |-> question_id,
                                    progress |-> Session_get_progress(session) ]
                    IN  /\ heap' = Collect([heap EXCEPT ![sid] = session],
                                           sessions, frames)
                        /\ ret' = Response("start_interview", sid,
                                           tasks[t].request,
                                           Returned(result),
                                           route_plain(Returned(result)))
              \/ /\ heap' = Collect(heap, sessions, frames)
                 /\ ret' = Response("start_interview", sid,
                                    tasks[t].request,
                                    Raised(GeneratorError),
                                    route_plain(Raised(GeneratorError)))

\* faulty variant: an unknown id falls back to the first question
find_question_fallback(s, question_id) ==
    LET hits == {i \in 1..Len(s.questions) : s.questions[i].id = question_id}
    IN  IF s.questions = <<>> THEN None
        ELSE IF hits = {} THEN s.questions[1]
        ELSE s.questions[CHOOSE i \in hits : \A j \in hits : i <= j]

\* next(q for q in session.questions if q["id"] == question_id, None)
find_question(s, question_id) ==
    LET hits == {i \in 1..Len(s.questions) : s.questions[i].id = question_id}
    IN  IF hits = {} THEN None
        ELSE s.questions[CHOOSE i \in hits : \A j \in hits : i <= j]

\* next_question from the lookup of the session to its await of
\* generate_question: the cursor moves, then the generator's arguments are made
next_question_call(s) ==
    LET moved == Session_move_to_next_question(s)
        next_topic_index == IF moved.topics # <<>>
                            THEN Len(moved.answers) % Len(moved.topics) ELSE 0
        next_topic == IF moved.topics # <<>>
                      THEN moved.topics[next_topic_index + 1] ELSE "general"
        previous_questions ==
            [i \in 1..Len(moved.questions) |-> moved.questions[i].question]
    IN  [ session |-> moved,
          topic |-> next_topic,
          previous_questions |-> previous_questions ]

\* next_question from the generator's answer to its return
next_question_return(s, frame, text) ==
    [ session |-> Session_add_question(s, text),
      value |-> [ next_question |-> text,
                  next_question_id |-> s.current_question_id,
                  topic |-> frame.topic ] ]

\* submit_answer up to its await of generate_feedback
submit_answer(session_id, question_id, answer) ==
    /\ ret = NoRet
    /\ UNCHANGED <<sessions, nextId, heap>>
    /\ IF session_id \notin sessions
       THEN /\ ret' = Response("submit_answer", session_id,
                               answer_request(question_id, answer),
                               Raised(SessionNotFound),
                               route_plain(Raised(SessionNotFound)))
            /\ UNCHANGED tasks
       ELSE LET question_data == find_question(heap[session_id], question_id)
            IN  IF question_data = None
                THEN /\ ret' = Response("submit_answer", session_id,
                                        answer_request(question_id, answer),
                                        Raised(QuestionNotFound),
                                        route_plain(Raised(QuestionNotFound)))
                     /\ UNCHANGED tasks
                ELSE /\ AnswersRoom
                     /\ QuestionsRoom
                     /\ CursorRoom(session_id)
                     /\ \E t \in Tasks :
                           /\ FreeTask(t)
                           /\ tasks' = [tasks EXCEPT ![t] =
                                  [ op |-> "submit_answer",
                                    pc |-> "generate_feedback",
                                    sid |-> session_id,
                                    question_id |-> question_id,
                                    answer |-> answer,
                                    question |-> question_data.question ]]
                     /\ ret' = NoRet

\* submit_answer from the return of generate_feedback to its next await (of
\* generate_question, inside next_question) or to its return
submit_answer_recorded(t, feedback_result) ==
    LET sid == tasks[t].sid
    IN  LET recorded == Session_add_answer(heap[sid],
                            tasks[t].question_id, tasks[t].answer,
                            feedback_result.feedback,
                            feedback_result.score)
            is_complete == Session_is_complete(recorded)
            result == [ feedback |-> feedback_result.feedback,
                        score |-> feedback_result.score,
                        is_complete |-> is_complete,
                        progress |-> Session_get_progress(recorded) ]
        IN  IF ~is_complete
            THEN IF sid \notin sessions
                 THEN \* next_question raises; the answer stays recorded
                      LET frames == [tasks EXCEPT ![t] = Idle]
                      IN  /\ tasks' = frames
                          /\ heap' = Collect([heap EXCEPT ![sid] = recorded],
                                             sessions, frames)
                          /\ ret' = Response("submit_answer", sid,
                                             answer_request(tasks[t].question_id, tasks[t].answer),
                                       Raised(SessionNotFound),
                                       route_plain(Raised(SessionNotFound)))
                 ELSE LET call == next_question_call(recorded)
                      IN  /\ tasks' = [tasks EXCEPT ![t] =
                                [ op |-> "submit_answer",
                                  pc |-> "generate_question",
                                  sid |-> sid,
                                  question_id |->
                                      tasks[t].question_id,
                                  answer |-> tasks[t].answer,
                                  result |-> result,
                                  topic |-> call.topic,
                                  previous_questions |->
                                      call.previous_questions ]]
                          /\ heap' = [heap EXCEPT ![sid] = call.session]
                          /\ ret' = NoRet
            ELSE LET frames == [tasks EXCEPT ![t] = Idle]
                 IN  /\ tasks' = frames
                     /\ heap' = Collect([heap EXCEPT ![sid] =
                                           Session_mark_complete(recorded)],
                                        sessions, frames)
                     /\ ret' = Response("submit_answer", sid,
                                        answer_request(tasks[t].question_id, tasks[t].answer),
                                        Returned(result),
                                        route_plain(Returned(result)))

\* submit_answer when generate_feedback raised
submit_answer_failed(t, e) ==
    LET sid == tasks[t].sid
        frames == [tasks EXCEPT ![t] = Idle]
    IN  /\ tasks' = frames
        /\ heap' = Collect(heap, sessions, frames)
        /\ ret' = Response("submit_answer", sid,
                           answer_request(tasks[t].question_id, tasks[t].answer),
                           Raised(e), route_plain(Raised(e)))

\* submit_answer resumed by the Feedback Generator, which returned a result
\* or raised
submit_answer_feedback(t) ==
    /\ ret = NoRet
    /\ tasks[t].op = "submit_answer"
    /\ tasks[t].pc = "generate_feedback"
    /\ UNCHANGED <<sessions, nextId>>
    /\ \/ \E feedback_result \in FeedbackResults :
             submit_answer_recorded(t, feedback_result)
       \/ submit_answer_failed(t, GeneratorError)

\* the same segment with generate_feedback run on the content of the model's
\* reply to the answer
submit_answer_parsed(t) ==
    /\ ret = NoRet
    /\ tasks[t].op = "submit_answer"
    /\ tasks[t].pc = "generate_feedback"
    /\ UNCHANGED <<sessions, nextId>>
    /\ \/ LET outcome == generate_feedback(ainvoke(tasks[t].question,
                                                   tasks[t].answer))
          IN  IF outcome.raised = None
              THEN submit_answer_recorded(t, outcome.value)
              ELSE submit_answer_failed(t, outcome.raised)
       \/ \* the model raises
          submit_answer_failed(t, GeneratorError)

\* submit_answer from the Question Generator's answer to its return
submit_answer_question(t) ==
    /\ ret = NoRet
    /\ tasks[t].op = "submit_answer"
    /\ tasks[t].pc = "generate_question"
    /\ UNCHANGED <<sessions, nextId>>
    /\ LET sid == tasks[t].sid
           frames == [tasks EXCEPT ![t] = Idle]
       IN  /\ tasks' = frames
           /\ \/ \E text \in generate_question(heap[sid].role,
                        heap[sid].difficulty, tasks[t].topic,
                        tasks[t].previous_questions) :
                    LET done == next_question_return(heap[sid], tasks[t],
                                                     text)
                        \* result.update(next_question_data)
                        result == [ feedback |-> tasks[t].result.feedback,
                                    score |-> tasks[t].result.score,
                                    is_complete |-> tasks[t].result.is_complete,
                                    progress |-> tasks[t].result.progress,
                                    next_question |-> done.value.next_question,
                                    next_question_id |->
                                        done.value.next_question_id,
                                    topic |-> done.value.topic ]
                    IN  /\ heap' = Collect([heap EXCEPT ![sid] = done.session],
                                           sessions, frames)
                        /\ ret' = Response("submit_answer", sid,
                                           answer_request(tasks[t].question_id, tasks[t].answer),
                                           Returned(result),
                                           route_plain(Returned(result)))
              \/ /\ heap' = Collect(heap, sessions, frames)
                 /\ ret' = Response("submit_answer", sid,
                                    answer_request(tasks[t].question_id, tasks[t].answer),
                                    Raised(GeneratorError),
                                    route_plain(Raised(GeneratorError)))

\* next_question called on its own (GET /interview/next), up to its await
next_question(session_id) ==
    /\ ret = NoRet
    /\ UNCHANGED <<sessions, nextId>>
    /\ IF session_id \notin sessions
       THEN /\ ret' = Response("next_question", session_id, <<>>,
                               Raised(SessionNotFound),
                               route_plain(Raised(SessionNotFound)))
            /\ UNCHANGED <<tasks, heap>>
       ELSE /\ QuestionsRoom
            /\ CursorRoom(session_id)
            /\ LET call == next_question_call(heap[session_id])
               IN  /\ \E t \in Tasks :
                         /\ FreeTask(t)
                         /\ tasks' = [tasks EXCEPT ![t] =
                                [ op |-> "next_question",
                                  pc |-> "generate_question",
                                  sid |-> session_id,
                                  topic |-> call.topic,
                                  previous_questions |->
                                      call.previous_questions ]]
                   /\ heap' = [heap EXCEPT ![session_id] = call.session]
            /\ ret' = NoRet

\* next_question called on its own, from the generator's answer to its return
next_question_resume(t) ==
    /\ ret = NoRet
    /\ tasks[t].op = "next_question"
    /\ UNCHANGED <<sessions, nextId>>
    /\ LET sid == tasks[t].sid
           frames == [tasks EXCEPT ![t] = Idle]
       IN  /\ tasks' = frames
           /\ \/ \E text \in generate_question(heap[sid].role,
                        heap[sid].difficulty, tasks[t].topic,
                        tasks[t].previous_questions) :
                    LET done == next_question_return(heap[sid], tasks[t],
                                                     text)
                    IN  /\ heap' = Collect([heap EXCEPT ![sid] = done.session],
                                           sessions, frames)
                        /\ ret' = Response("next_question", sid, <<>>,
                                           Returned(done.value),
                                           route_plain(Returned(done.value)))
              \/ /\ heap' = Collect(heap, sessions, frames)
                 /\ ret' = Response("next_question", sid, <<>>,
                                    Raised(GeneratorError),
                                    route_plain(Raised(GeneratorError)))

(***************************************************************************)
(* Scores and the summary.  A float the code rounds to two decimals is     *)
(* kept in hundredths: 8.0 is 800, 6.67 is 667.                            *)
(***************************************************************************)
\* round(num / den, 2), in hundredths; Python rounds a tie to the even digit
round2(num, den) ==
    LET q == (100 * num) \div den
        r == (100 * num) % den
    IN  IF 2 * r < den THEN q
        ELSE IF 2 * r > den THEN q + 1
        ELSE IF q % 2 = 0 THEN q ELSE q + 1

RECURSIVE sum(_)
sum(scores) ==
    IF scores = <<>> THEN 0 ELSE Head(scores) + sum(Tail(scores))

\* faulty variant: the quotient is cut off after two decimals
calculate_average_score_truncated(scores) ==
    IF scores = <<>> THEN 0 ELSE (100 * sum(scores)) \div Len(scores)

calculate_average_score(scores) ==
    IF scores = <<>> THEN 0 ELSE round2(sum(scores), Len(scores))

Session_get_average_score(s) == calculate_average_score(s.scores)

\* the keys of topic_scores in the order the loop first meets them
RECURSIVE topic_keys(_, _)
topic_keys(s, n) ==
    IF n = 0 THEN <<>>
    ELSE LET before == topic_keys(s, n - 1)
             topic == s.questions[n].topic
         IN  IF \E k \in 1..Len(before) : before[k] = topic
             THEN before ELSE Append(before, topic)

\* topic_scores[topic]: the scores of the answers whose position holds a
\* question of that topic
RECURSIVE topic_scores(_, _, _)
topic_scores(s, n, topic) ==
    IF n = 0 THEN <<>>
    ELSE LET before == topic_scores(s, n - 1, topic)
         IN  IF s.questions[n].topic = topic
             THEN Append(before, s.answers[n].score) ELSE before

\* faulty variant: the last of equal keys
last_max(items) ==
    CHOOSE i \in 1..Len(items) :
        /\ \A j \in 1..Len(items) : items[j][2] <= items[i][2]
        /\ \A j \in (i + 1)..Len(items) : items[j][2] < items[i][2]

\* max(items, key) and min(items, key) keep the first of equal keys
first_max(items) ==
    CHOOSE i \in 1..Len(items) :
        /\ \A j \in 1..Len(items) : items[j][2] <= items[i][2]
        /\ \A j \in 1..(i - 1) : items[j][2] < items[i][2]
first_min(items) ==
    CHOOSE i \in 1..Len(items) :
        /\ \A j \in 1..Len(items) : items[j][2] >= items[i][2]
        /\ \A j \in 1..(i - 1) : items[j][2] > items[i][2]

\* faulty variant: > for >=
performance_level_strict(average_score) ==
    IF average_score > 800 THEN "Excellent"
    ELSE IF average_score > 600 THEN "Good"
    ELSE IF average_score > 400 THEN "Fair"
    ELSE "Needs Improvement"

\* the if / elif chain on average_score
performance_level(average_score) ==
    IF average_score >= 800 THEN "Excellent"
    ELSE IF average_score >= 600 THEN "Good"
    ELSE IF average_score >= 400 THEN "Fair"
    ELSE "Needs Improvement"

\* faulty variant: the answer is looked up by the question's id
transcript_entry_by_id(s, i) ==
    LET hits == {k \in 1..Len(s.answers) :
                    s.answers[k].question_id = s.questions[i].id}
        a == IF hits = {} THEN None
             ELSE s.answers[CHOOSE k \in hits : \A j \in hits : k <= j]
    IN  [ question_number |-> i,
          topic |-> s.questions[i].topic,
          question |-> s.questions[i].question,
          answer |-> IF a # None THEN a.answer ELSE None,
          feedback |-> IF a # None THEN a.feedback ELSE None,
          score |-> IF a # None THEN a.score ELSE None,
          timestamp |-> IF a # None THEN a.timestamp ELSE None ]

\* the entry of questions_and_answers for the question at position i
transcript_entry(s, i) ==
    [ question_number |-> i,
      topic |-> s.questions[i].topic,
      question |-> s.questions[i].question,
      answer |-> IF i <= Len(s.answers) THEN s.answers[i].answer ELSE None,
      feedback |-> IF i <= Len(s.answers) THEN s.answers[i].feedback ELSE None,
      score |-> IF i <= Len(s.answers) THEN s.answers[i].score ELSE None,
      timestamp |-> IF i <= Len(s.answers)
                    THEN s.answers[i].timestamp ELSE None ]

\* the summary generate_summary builds of session s
build_summary(s) ==
    LET average_score == Session_get_average_score(s)
        total_questions == Len(s.questions)
        total_answers == Len(s.answers)
        level == performance_level(average_score)
        n == IF total_answers < total_questions
             THEN total_answers ELSE total_questions
        keys == topic_keys(s, n)
        topic_averages ==
            [k \in 1..Len(keys) |->
                <<keys[k], calculate_average_score(topic_scores(s, n, keys[k]))>>]
        strongest_topic == IF topic_averages # <<>>
                           THEN topic_averages[first_max(topic_averages)]
                           ELSE <<"N/A", 0>>
        weakest_topic == IF topic_averages # <<>>
                         THEN topic_averages[first_min(topic_averages)]
                         ELSE <<"N/A", 0>>
    IN  [ session_id |-> s.session_id,
          role |-> s.role,
          difficulty |-> s.difficulty,
          topics |-> s.topics,
          state |-> s.state,
          created_at |-> s.created_at,
          completed_at |-> s.completed_at,
          statistics |->
              [ total_questions |-> total_questions,
                total_answers |-> total_answers,
                average_score |-> round2(average_score, 100),
                performance_level |-> level,
                completion_rate |-> round2(total_answers * 100, MAX_QUESTIONS) ],
          topic_performance |-> topic_averages,
          strongest_topic |-> strongest_topic[1],
          strongest_topic_score |-> round2(strongest_topic[2], 100),
          weakest_topic |-> weakest_topic[1],
          weakest_topic_score |-> round2(weakest_topic[2], 100),
          questions_and_answers |->
              [i \in 1..Len(s.questions) |-> transcript_entry(s, i)] ]

\* core/utils.py: the floats of statistics and topic_performance rounded again
format_interview_summary(summary) ==
    [summary EXCEPT
        !.statistics.average_score = round2(@, 100),
        !.statistics.completion_rate = round2(@, 100),
        !.topic_performance =
            [k \in 1..Len(@) |-> <<@[k][1], round2(@[k][2], 100)>>]]

\* faulty variant: a missing session reads as "no current question"
Manager_get_current_question_lenient(session_id) ==
    IF session_id \in sessions
    THEN Returned(Session_get_current_question(heap[session_id]))
    ELSE Returned(None)

\* what each synchronous manager call hands back in the current state
Manager_get_current_question(session_id) ==
    IF session_id \notin sessions THEN Raised(SessionNotFound)
    ELSE Returned(Session_get_current_question(heap[session_id]))

Manager_is_complete(session_id) ==
    IF session_id \notin sessions THEN Raised(SessionNotFound)
    ELSE Returned(Session_is_complete(heap[session_id]))

Manager_get_session_state(session_id) ==
    IF session_id \notin sessions THEN Raised(SessionNotFound)
    ELSE Returned(heap[session_id].state)

Manager_generate_summary(session_id) ==
    IF session_id \notin sessions THEN Raised(SessionNotFound)
    ELSE Returned(format_interview_summary(build_summary(heap[session_id])))

\* faulty variant: asking for the summary closes the interview
generate_summary_closes(session_id) ==
    /\ ret = NoRet
    /\ ret' = Response("generate_summary", session_id, <<>>,
                       Manager_generate_summary(session_id),
                       route_plain(Manager_generate_summary(session_id)))
    /\ heap' = IF session_id \in sessions
               THEN [heap EXCEPT ![session_id] = Session_mark_complete(@)]
               ELSE heap
    /\ UNCHANGED <<sessions, nextId, tasks>>

\* generate_summary awaits nothing: it runs in one segment (GET /summary)
generate_summary(session_id) ==
    /\ ret = NoRet
    /\ ret' = Response("generate_summary", session_id, <<>>,
                       Manager_generate_summary(session_id),
                       route_plain(Manager_generate_summary(session_id)))
    /\ UNCHANGED <<sessions, heap, nextId, tasks>>

\* GET /current/{session_id}
get_current_question(session_id) ==
    /\ ret = NoRet
    /\ ret' = Response("get_current_question", session_id, <<>>,
                  Manager_get_current_question(session_id),
                  route_get_current_question(
                      Manager_get_current_question(session_id)))
    /\ UNCHANGED <<sessions, heap, nextId, tasks>>

\* GET /interview/question
public_get_current_question(session_id) ==
    /\ ret = NoRet
    /\ ret' = Response("public_get_current_question", session_id, <<>>,
                  Manager_get_current_question(session_id),
                  route_public_get_current_question(
                      Manager_get_current_question(session_id)))
    /\ UNCHANGED <<sessions, heap, nextId, tasks>>

\* GET /status/{session_id}: get_session_state, then is_complete
get_session_status(session_id) ==
    /\ ret = NoRet
    /\ LET state == Manager_get_session_state(session_id)
           complete == Manager_is_complete(session_id)
           outcome == IF state.raised # None THEN state
                      ELSE IF complete.raised # None THEN complete
                      ELSE Returned([ session_id |-> session_id,
                                      state |-> state.value,
                                      is_complete |-> complete.value ])
       IN  ret' = Response("get_session_status", session_id, <<>>, outcome,
                           route_plain(outcome))
    /\ UNCHANGED <<sessions, heap, nextId, tasks>>

\* the manager's is_complete and get_session_state called on their own
is_complete(session_id) ==
    /\ ret = NoRet
    /\ ret' = Response("is_complete", session_id, <<>>,
                       Manager_is_complete(session_id),
                       route_plain(Manager_is_complete(session_id)))
    /\ UNCHANGED <<sessions, heap, nextId, tasks>>

get_session_state(session_id) ==
    /\ ret = NoRet
    /\ ret' = Response("get_session_state", session_id, <<>>,
                       Manager_get_session_state(session_id),
                       route_plain(Manager_get_session_state(session_id)))
    /\ UNCHANGED <<sessions, heap, nextId, tasks>>

\* faulty variant: the entry is reported deleted and left in the store
Manager_delete_session_keeps(session_id) ==
    [ deleted |-> session_id \in sessions, store |-> sessions ]

\* InterviewManager.delete_session: whether the id was in the store, and the
\* store it leaves
Manager_delete_session(session_id) ==
    IF session_id \in sessions
    THEN [ deleted |-> TRUE, store |-> sessions \ {session_id} ]
    ELSE [ deleted |-> FALSE, store |-> sessions ]

\* DELETE /session/{session_id}
delete_session(session_id) ==
    /\ ret = NoRet
    /\ LET done == Manager_delete_session(session_id)
       IN  /\ sessions' = done.store
           /\ heap' = Collect(heap, sessions', tasks)
           /\ ret' = Response("delete_session", session_id, <<>>,
                              Returned(done.deleted),
                              route_delete_session(done.deleted))
    /\ UNCHANGED <<nextId, tasks>>

\* the handler's return: the response goes out and the event loop takes the
\* next segment
send_response ==
    /\ ret # NoRet
    /\ ret' = NoRet
    /\ UNCHANGED <<sessions, heap, nextId, tasks>>

Next ==
    \/ \E t \in Tasks, request \in StartRequests : start_interview(t, request)
    \/ \E t \in Tasks : start_interview_resume(t)
    \/ \E session_id \in SessionIds, question_id \in QuestionIds,
          answer \in AnswerTexts :
            submit_answer(session_id, question_id, answer)
    \/ \E t \in Tasks : submit_answer_feedback(t)
    \/ \E t \in Tasks : submit_answer_question(t)
    \/ \E session_id \in SessionIds : next_question(session_id)
    \/ \E t \in Tasks : next_question_resume(t)
    \/ \E session_id \in SessionIds : generate_summary(session_id)
    \/ \E session_id \in SessionIds : get_current_question(session_id)
    \/ \E session_id \in SessionIds : public_get_current_question(session_id)
    \/ \E session_id \in SessionIds : get_session_status(session_id)
    \/ \E session_id \in SessionIds : is_complete(session_id)
    \/ \E session_id \in SessionIds : get_session_state(session_id)
    \/ \E session_id \in SessionIds : delete_session(session_id)
    \/ send_response

Spec == Init /\ [][Next]_vars

\* The caller the design expects: one call at a time (a call is made only
\* when the one before has returned), and generators that answer.  While a
\* coroutine is suspended the only step is its resumption.
OneCallAtATime ==
    /\ Cardinality({t \in Tasks : tasks'[t] # Idle}) <= 1
    /\ Suspended = {} \/ tasks' # tasks
GeneratorsAnswer == ret' # NoRet => ret'.outcome.raised # GeneratorError

Orderly == OneCallAtATime /\ GeneratorsAnswer

NextSequential ==
    \/ \E t \in Tasks, request \in StartRequests :
          start_interview(t, request) /\ Orderly
    \/ \E t \in Tasks : start_interview_resume(t) /\ Orderly
    \/ \E session_id \in SessionIds, question_id \in QuestionIds,
          answer \in AnswerTexts :
            submit_answer(session_id, question_id, answer) /\ Orderly
    \/ \E t \in Tasks : submit_answer_feedback(t) /\ Orderly
    \/ \E t \in Tasks : submit_answer_question(t) /\ Orderly
    \/ \E session_id \in SessionIds : next_question(session_id) /\ Orderly
    \/ \E t \in Tasks : next_question_resume(t) /\ Orderly
    \/ \E session_id \in SessionIds : generate_summary(session_id) /\ Orderly
    \/ \E session_id \in SessionIds :
          get_current_question(session_id) /\ Orderly
    \/ \E session_id \in SessionIds :
          public_get_current_question(session_id) /\ Orderly
    \/ \E session_id \in SessionIds :
          get_session_status(session_id) /\ Orderly
    \/ \E session_id \in SessionIds : is_complete(session_id) /\ Orderly
    \/ \E session_id \in SessionIds : get_session_state(session_id) /\ Orderly
    \/ \E session_id \in SessionIds : delete_session(session_id) /\ Orderly
    \/ send_response /\ Orderly

SpecSequential == Init /\ [][NextSequential]_vars

\* One call at a time, with generators that may fail.
NextOneAtATime ==
    \/ \E t \in Tasks, request \in StartRequests :
          start_interview(t, request) /\ OneCallAtATime
    \/ \E t \in Tasks : start_interview_resume(t) /\ OneCallAtATime
    \/ \E session_id \in SessionIds, question_id \in QuestionIds,
          answer \in AnswerTexts :
            submit_answer(session_id, question_id, answer) /\ OneCallAtATime
    \/ \E t \in Tasks : submit_answer_feedback(t) /\ OneCallAtATime
    \/ \E t \in Tasks : submit_answer_question(t) /\ OneCallAtATime
    \/ \E session_id \in SessionIds :
          next_question(session_id) /\ OneCallAtATime
    \/ \E t \in Tasks : next_question_resume(t) /\ OneCallAtATime
    \/ \E session_id \in SessionIds :
          generate_summary(session_id) /\ OneCallAtATime
    \/ \E session_id \in SessionIds :
          get_current_question(session_id) /\ OneCallAtATime
    \/ \E session_id \in SessionIds :
          public_get_current_question(session_id) /\ OneCallAtATime
    \/ \E session_id \in SessionIds :
          get_session_status(session_id) /\ OneCallAtATime
    \/ \E session_id \in SessionIds :
          is_complete(session_id) /\ OneCallAtATime
    \/ \E session_id \in SessionIds :
          get_session_state(session_id) /\ OneCallAtATime
    \/ \E session_id \in SessionIds :
          delete_session(session_id) /\ OneCallAtATime
    \/ send_response /\ OneCallAtATime

SpecOneAtATime == Init /\ [][NextOneAtATime]_vars

\* Interviews driven by start_interview and submit_answer alone: every call,
\* in any interleaving, but next_question on its own.
NextSubmitOnly ==
    \/ \E t \in Tasks, request \in StartRequests : start_interview(t, request)
    \/ \E t \in Tasks : start_interview_resume(t)
    \/ \E session_id \in SessionIds, question_id \in QuestionIds,
          answer \in AnswerTexts :
            submit_answer(session_id, question_id, answer)
    \/ \E t \in Tasks : submit_answer_feedback(t)
    \/ \E t \in Tasks : submit_answer_question(t)
    \/ \E session_id \in SessionIds : get_session_status(session_id)
    \/ \E session_id \in SessionIds : delete_session(session_id)
    \/ send_response

SpecSubmitOnly == Init /\ [][NextSubmitOnly]_vars

\* One caller, who submits the answers that the model replies to with the
\* contents of Replies.
ParsedRoom ==
    total([sid \in DOMAIN heap |-> Len(heap[sid].answers)], DOMAIN heap)
        < MaxParsed

NextFeedback ==
    \/ \E t \in Tasks, request \in StartRequests :
          start_interview(t, request) /\ OneCallAtATime
    \/ \E t \in Tasks : start_interview_resume(t) /\ OneCallAtATime
    \/ \E session_id \in SessionIds, question_id \in QuestionIds,
          answer \in ReplyAnswers :
            /\ ParsedRoom
            /\ submit_answer(session_id, question_id, answer)
            /\ OneCallAtATime
    \/ \E t \in Tasks : submit_answer_parsed(t) /\ OneCallAtATime
    \/ \E t \in Tasks : submit_answer_question(t) /\ OneCallAtATime
    \/ send_response /\ OneCallAtATime

SpecFeedback == Init /\ [][NextFeedback]_vars

(***************************************************************************)
(* The summary on its own: generate_summary applied to the sessions that   *)
(* start_interview and submit_answer / next_question calls leave behind,   *)
(* with the scores the Feedback Generator may have given.                  *)
(***************************************************************************)
\* scores of the Feedback Generator (a number, by design between 0 and 10)
SummaryScores == {3, 4, 6, 8, 10}
SummaryTopics == { <<"algo", "db">>, <<>> }

\* the session after its first n questions were generated and appended
RECURSIVE asked(_, _)
asked(s, n) ==
    IF n = 0 THEN s
    ELSE LET before == asked(s, n - 1)
             topic == IF before.topics # <<>>
                      THEN before.topics[((n - 1) % Len(before.topics)) + 1]
                      ELSE "general"
             previous_questions ==
                 [i \in 1..Len(before.questions) |->
                     before.questions[i].question]
             text == CHOOSE q \in generate_question(before.role,
                         before.difficulty, topic, previous_questions) : TRUE
         IN  Session_add_question(before, text)

\* the session after answers with these scores were recorded, the i-th
\* for the i-th question
RECURSIVE answered(_, _)
answered(s, scores) ==
    IF scores = <<>> THEN s
    ELSE LET n == Len(scores)
         IN  Session_add_answer(answered(s, SubSeq(scores, 1, n - 1)),
                                n - 1, "ans", "fb", scores[n])

\* the cursor where the calls left it, and the state
settled(s) ==
    LET at == [s EXCEPT !.current_question_index =
                  IF Len(s.questions) = 0 THEN 0 ELSE Len(s.questions) - 1]
    IN  IF Session_is_complete(at) THEN Session_mark_complete(at) ELSE at

SummarySessions ==
    UNION { UNION { { settled(answered(asked(set_in_progress(
                          InterviewSession(1, <<"d", "e", "v">>,
                              <<"H", "a", "r", "d">>, topics)), n), scores)) :
                      scores \in UNION { [1..k -> SummaryScores] : k \in 0..n } } :
                    n \in 0..MaxQuestionsLen } :
            topics \in SummaryTopics }

InitSummary ==
    /\ sessions = {1}
    /\ heap \in { (1 :> s) : s \in SummarySessions }
    /\ nextId = 1
    /\ tasks = [t \in Tasks |-> Idle]
    /\ ret = NoRet

NextSummary ==
    \/ \E session_id \in SessionIds : generate_summary(session_id)
    \/ send_response

SpecSummary == InitSummary /\ [][NextSummary]_vars

(***************************************************************************)
(* Properties                                                              *)
(***************************************************************************)
StateRank(state) ==
    CASE state = "not_started" -> 0
      [] state = "in_progress" -> 1
      [] state = "completed" -> 2

\* the call segment of a handler answered on the spot (no coroutine was
\* suspended or resumed by the step)
AnsweredAtCall(op) == ret'.op = op /\ tasks' = tasks

NeverIssued(s, question_id) ==
    \A i \in 1..Len(s.questions) : s.questions[i].id # question_id

\* C1: in every step, under every interleaving of the operations, a session's
\* state stays or moves one step along not_started -> in_progress ->
\* completed; a session never appears already completed.
C1_StateOnlyMovesForward ==
    [][\A sid \in DOMAIN heap' :
          IF sid \in DOMAIN heap
          THEN /\ StateRank(heap[sid].state) <= StateRank(heap'[sid].state)
               /\ StateRank(heap'[sid].state) <= StateRank(heap[sid].state) + 1
          ELSE heap'[sid].state # "completed"]_vars

C1_Witness ==
    \E sid \in sessions : heap[sid].state = "completed"

\* C2: in every reachable state every session of the store has as many
\* scores as answers and no more answers than questions.
C2_ScoresAnswersQuestions ==
    \A sid \in sessions :
        /\ Len(heap[sid].scores) = Len(heap[sid].answers)
        /\ Len(heap[sid].answers) <= Len(heap[sid].questions)

\* C3: a submit_answer that returns reports is_complete, carries no
\* next_question / next_question_id and leaves the session completed when the
\* answer it recorded was the MAX_QUESTIONS-th; when it recorded an earlier
\* one it reports is_complete false and carries both.
C3_FinalAnswerCompletes ==
    (ret.op = "submit_answer" /\ ret.outcome.raised = None) =>
        LET result == ret.outcome.value
        IN  /\ result.progress.answered_questions = MAX_QUESTIONS =>
                /\ result.is_complete
                /\ "next_question" \notin DOMAIN result
                /\ "next_question_id" \notin DOMAIN result
                /\ ret.sid \in sessions => heap[ret.sid].state = "completed"
            /\ result.progress.answered_questions < MAX_QUESTIONS =>
                /\ ~result.is_complete
                /\ "next_question" \in DOMAIN result
                /\ "next_question_id" \in DOMAIN result

C3_Witness ==
    /\ ret.op = "submit_answer"
    /\ ret.outcome.raised = None
    /\ ret.outcome.value.progress.answered_questions = MAX_QUESTIONS
    /\ ret.outcome.value.is_complete
    /\ ret.sid \in sessions
    /\ heap[ret.sid].state = "completed"

\* C4: in every reachable state, whatever calls were interleaved, the question
\* at position i (from 0) of a session has id i, so the ids are unique and
\* strictly increasing from 0.
C4_QuestionIdsArePositions ==
    \A sid \in DOMAIN heap :
        \A i \in 1..Len(heap[sid].questions) :
            heap[sid].questions[i].id = i - 1

C4_Witness ==
    \E sid \in sessions : Len(heap[sid].questions) > MAX_QUESTIONS

\* C5: in every reachable state the i-th answer of a session carries the id
\* of its i-th question, for every position both sequences have.
C5_AnswersAlignWithQuestions ==
    \A sid \in sessions :
        \A i \in 1..Len(heap[sid].answers) :
            i <= Len(heap[sid].questions) =>
                heap[sid].answers[i].question_id = heap[sid].questions[i].id

\* C6: a submit_answer for a session of the store and a question id the
\* session never issued is answered with the question-not-found error and
\* changes neither the sessions nor the store; the Feedback Generator is only
\* ever called for a question the session has issued.
C6_UnknownQuestionRejected ==
    [][/\ ( /\ AnsweredAtCall("submit_answer")
            /\ ret'.sid \in sessions
            /\ NeverIssued(heap[ret'.sid], ret'.args.question_id) )
          => /\ ret'.outcome.raised = QuestionNotFound
             /\ heap' = heap
             /\ sessions' = sessions
       /\ \A t \in Tasks :
            (tasks'[t] # tasks[t] /\ tasks'[t].pc = "generate_feedback")
            => ~NeverIssued(heap[tasks'[t].sid], tasks'[t].question_id)]_vars

C6_Witness ==
    /\ ret.op = "submit_answer"
    /\ ret.outcome.raised = QuestionNotFound
    /\ ret.sid \in sessions
    /\ heap[ret.sid].questions # <<>>
    /\ NeverIssued(heap[ret.sid], ret.args.question_id)

\* C7: no session of the store, and no start_interview waiting for the
\* Question Generator, has a blank role or a difficulty other than easy,
\* medium or hard (in any case).
C7_InvalidStartRejected ==
    /\ \A sid \in sessions :
          /\ validate_role(heap[sid].role)
          /\ validate_difficulty(heap[sid].difficulty)
    /\ \A t \in Tasks :
          tasks[t].op = "start_interview" =>
              /\ validate_role(tasks[t].request.role)
              /\ validate_difficulty(tasks[t].request.difficulty)

SessionLookups ==
    { "get_current_question", "submit_answer", "next_question",
      "generate_summary", "get_session_state", "is_complete" }

\* C8: get_current_question, submit_answer, next_question, generate_summary,
\* get_session_state and is_complete, called with a session id that is not in
\* the store, raise the session-not-found error and leave the store and every
\* session as they were; no such call is left waiting on a generator.
C8_MissingSessionRejected ==
    [][/\ \A op \in SessionLookups :
            (AnsweredAtCall(op) /\ ret'.sid \notin sessions)
            => /\ ret'.outcome.raised = SessionNotFound
               /\ sessions' = sessions
               /\ heap' = heap
       /\ \A t \in Tasks :
            ( /\ tasks[t] = Idle
              /\ tasks'[t] # Idle
              /\ tasks'[t].op # "start_interview" )
            => tasks'[t].sid \in sessions]_vars

C8_Witness ==
    /\ ret.op \in SessionLookups
    /\ ret.sid \notin sessions
    /\ ret.outcome.raised = SessionNotFound
    /\ sessions # {}

\* C9: a request to /answer, /summary, /status or /current that the manager
\* answers with session-not-found or question-not-found gets status 404.
C9_NotFoundIs404 ==
    ( /\ ret.op \in { "submit_answer", "generate_summary",
                      "get_session_status", "get_current_question" }
      /\ ret.outcome.raised \in {SessionNotFound, QuestionNotFound} )
    => ret.http.status_code = 404

\* C10: DELETE /session answers 200 when the session existed and 404 when it
\* did not, and GET /current answers 200 with the current question or 404
\* when the session has none.
C10_DeleteAndCurrentStatus ==
    /\ ret.op = "delete_session" =>
          ret.http.status_code = IF ret.outcome.value THEN 200 ELSE 404
    /\ (ret.op = "get_current_question" /\ ret.outcome.raised = None) =>
          ret.http.status_code = IF ret.outcome.value = None THEN 404 ELSE 200

\* C11: delete_session answers true and takes the session out of the store
\* exactly when its id is in the store; otherwise it answers false, raises
\* nothing and changes nothing.  Either way the id is not in the store
\* afterwards (so a second delete answers false and changes nothing) and every
\* other session is as it was.
C11_DeleteRemovesExactly ==
    [][ret'.op = "delete_session" =>
          /\ ret'.outcome.raised = None
          /\ ret'.outcome.value = (ret'.sid \in sessions)
          /\ sessions' = sessions \ {ret'.sid}
          /\ \A other \in sessions' : heap'[other] = heap[other]
          /\ ret'.sid \notin sessions => heap' = heap]_vars

\* a second delete of a session that was started, beside another session
C11_Witness ==
    /\ ret.op = "delete_session"
    /\ ret.outcome.value = FALSE
    /\ ret.sid <= nextId
    /\ sessions # {}

\* C12: in every reachable state the question at index i of a session has the
\* topic topics[i mod len(topics)], or "general" when the session has no
\* topics, whichever operation produced it.
C12_TopicsRotate ==
    \A sid \in DOMAIN heap :
        \A i \in 1..Len(heap[sid].questions) :
            heap[sid].questions[i].topic =
                IF heap[sid].topics # <<>>
                THEN heap[sid].topics[((i - 1) % Len(heap[sid].topics)) + 1]
                ELSE "general"

\* more questions than topics: the rotation has come round
C12_Witness ==
    \E sid \in sessions :
        /\ heap[sid].topics # <<>>
        /\ Len(heap[sid].questions) > Len(heap[sid].topics)
        /\ Len(heap[sid].answers) < Len(heap[sid].questions) - 1

\* C13: in every reachable state, also with several calls on one session in
\* flight, the question at index i of a session was requested from the
\* Question Generator with previous_questions equal to the texts of the
\* questions at indexes 0..i-1, in order.
C13_PreviousQuestionsComplete ==
    \A sid \in DOMAIN heap :
        \A i \in 1..Len(heap[sid].questions) :
            heap[sid].questions[i].question.previous =
                [j \in 1..(i - 1) |-> heap[sid].questions[j].question]

\* C14: generate_summary on a session of the store leaves that session (its
\* questions, answers, scores, cursor, id counter, state and completion
\* time), every other session and the store as they were, whatever else is
\* in flight.
C14_SummaryChangesNothing ==
    [][(ret'.op = "generate_summary" /\ ret'.sid \in sessions) =>
          /\ ret'.outcome.raised = None
          /\ heap' = heap
          /\ sessions' = sessions
          /\ nextId' = nextId
          /\ tasks' = tasks]_vars

\* a summary of an unfinished session with answers, a call on it in flight
C14_Witness ==
    /\ ret.op = "generate_summary"
    /\ ret.outcome.raised = None
    /\ heap[ret.sid].answers # <<>>
    /\ heap[ret.sid].state = "in_progress"
    /\ \E t \in Tasks : tasks[t] # Idle /\ tasks[t].sid = ret.sid

\* the session is as start_interview and submit_answer calls, each answering
\* the question returned last, leave it
InOrder(s) ==
    /\ Len(s.answers) <= MAX_QUESTIONS
    /\ \A i \in 1..Len(s.answers) : s.answers[i].question_id = i - 1
    /\ Len(s.questions) = IF Len(s.answers) < MAX_QUESTIONS
                          THEN Len(s.answers) + 1 ELSE MAX_QUESTIONS

\* C15: with one call at a time, on a session that was started and whose
\* answers each answer the question returned last: a submit_answer that is
\* not the MAX_QUESTIONS-th returns is_complete false with the next question,
\* the MAX_QUESTIONS-th returns is_complete true with no next question, and
\* generate_summary then reports total_answers = MAX_QUESTIONS, a
\* completion_rate of 100.0 and the state completed.
C15_EndToEnd ==
    /\ ( /\ ret.op = "submit_answer"
         /\ ret.outcome.raised = None
         /\ ret.sid \in sessions
         /\ InOrder(heap[ret.sid]) ) =>
          LET s == heap[ret.sid]
              result == ret.outcome.value
          IN  IF Len(s.answers) < MAX_QUESTIONS
              THEN /\ result.is_complete = FALSE
                   /\ "next_question" \in DOMAIN result
                   /\ result.next_question_id = Len(s.answers)
                   /\ result.next_question =
                          s.questions[Len(s.questions)].question
              ELSE /\ result.is_complete = TRUE
                   /\ DOMAIN result =
                          {"feedback", "score", "is_complete", "progress"}
    /\ ( /\ ret.op = "generate_summary"
         /\ ret.outcome.raised = None
         /\ InOrder(heap[ret.sid])
         /\ Len(heap[ret.sid].answers) = MAX_QUESTIONS ) =>
          /\ ret.outcome.value.statistics.total_answers = MAX_QUESTIONS
          /\ ret.outcome.value.statistics.completion_rate = 10000
          /\ ret.outcome.value.state = "completed"

C15_Witness ==
    /\ ret.op = "generate_summary"
    /\ ret.outcome.raised = None
    /\ InOrder(heap[ret.sid])
    /\ Len(heap[ret.sid].answers) = MAX_QUESTIONS
    /\ ret.outcome.value.statistics.completion_rate = 10000

\* C19: the questions_and_answers of a summary has one entry for each
\* question of the session, in order and numbered from 1; the entry at
\* position i carries the answer, feedback, score and timestamp of the answer
\* at position i when there is one, and none for all four when there is not.
C19_TranscriptFollowsQuestions ==
    (ret.op = "generate_summary" /\ ret.outcome.raised = None) =>
        LET s == heap[ret.sid]
            qa == ret.outcome.value.questions_and_answers
        IN  /\ Len(qa) = Len(s.questions)
            /\ \A i \in 1..Len(qa) :
                  /\ qa[i].question_number = i
                  /\ qa[i].question = s.questions[i].question
                  /\ qa[i].topic = s.questions[i].topic
                  /\ i <= Len(s.answers) =>
                        /\ qa[i].timestamp = s.answers[i].timestamp
                        /\ qa[i].answer = s.answers[i].answer
                        /\ qa[i].feedback = s.answers[i].feedback
                        /\ qa[i].score = s.answers[i].score
                  /\ i > Len(s.answers) =>
                        /\ qa[i].timestamp = None
                        /\ qa[i].answer = None
                        /\ qa[i].feedback = None
                        /\ qa[i].score = None

\* a transcript with an answered and an unanswered question
C19_Witness ==
    /\ ret.op = "generate_summary"
    /\ ret.outcome.raised = None
    /\ LET qa == ret.outcome.value.questions_and_answers
       IN  /\ Len(qa) >= 2
           /\ qa[1].timestamp = Now
           /\ qa[Len(qa)].timestamp = None

\* C20: get_current_question on a session of the store returns the question
\* at the cursor when the cursor is within the questions and none, without
\* raising, when it is not, and changes nothing.
C20_CurrentQuestionAtCursor ==
    [][( /\ ret'.op \in {"get_current_question",
                          "public_get_current_question"}
         /\ ret'.sid \in sessions ) =>
          LET s == heap[ret'.sid]
          IN  /\ ret'.outcome.raised = None
              /\ ret'.outcome.value =
                    IF s.current_question_index < Len(s.questions)
                    THEN s.questions[s.current_question_index + 1]
                    ELSE None
              /\ heap' = heap
              /\ sessions' = sessions
              /\ nextId' = nextId
              /\ tasks' = tasks]_vars

\* none returned for a session whose cursor has passed its questions
C20_Witness ==
    /\ ret.op = "get_current_question"
    /\ ret.sid \in sessions
    /\ ret.outcome.raised = None
    /\ ret.outcome.value = None
    /\ heap[ret.sid].questions # <<>>

SummaryReturned == ret.op = "generate_summary" /\ ret.outcome.raised = None

\* v, in hundredths, is the quotient total / n to two decimals
ToTwoDecimals(v, total_score, n) ==
    /\ 2 * (100 * total_score - v * n) <= n
    /\ 2 * (v * n - 100 * total_score) <= n

C18_AverageIsRoundedMean ==
    SummaryReturned =>
        LET scores == heap[ret.sid].scores
            average_score == ret.outcome.value.statistics.average_score
        IN  /\ average_score = Session_get_average_score(heap[ret.sid])
            /\ IF scores = <<>> THEN average_score = 0
               ELSE ToTwoDecimals(average_score, sum(scores), Len(scores))

\* a mean that two decimals do not hold
C18_Witness ==
    /\ SummaryReturned
    /\ heap[ret.sid].scores = <<3, 3, 4>>
    /\ ret.outcome.value.statistics.average_score = 333

\* C18 (as stated): the average_score of a summary is 0.0 with no scores and
\* otherwise exactly the arithmetic mean of the session's scores.
C18_AverageIsExactMean ==
    SummaryReturned =>
        LET scores == heap[ret.sid].scores
            average_score == ret.outcome.value.statistics.average_score
        IN  IF scores = <<>> THEN average_score = 0
            ELSE average_score * Len(scores) = 100 * sum(scores)

\* C21: a next_question call on a session moves the cursor by one when it is
\* made and changes nothing else; when it returns it has appended one
\* question, whose id it returns as next_question_id, and has left the
\* answers, the scores, the state and the cursor as they were.
C21_NextQuestionAppendsOne ==
    [][/\ \A t \in Tasks :
            (tasks[t] = Idle /\ tasks'[t].op = "next_question") =>
                heap'[tasks'[t].sid] =
                    [heap[tasks'[t].sid] EXCEPT
                        !.current_question_index = @ + 1]
       /\ ( /\ ret'.op = "next_question"
            /\ ret'.outcome.raised = None
            /\ ret'.sid \in sessions ) =>
              LET before == heap[ret'.sid]
                  after == heap'[ret'.sid]
                  n == Len(before.questions)
              IN  /\ Len(after.questions) = n + 1
                  /\ SubSeq(after.questions, 1, n) = before.questions
                  /\ ret'.outcome.value.next_question_id
                        = after.questions[n + 1].id
                  /\ ret'.outcome.value.next_question
                        = after.questions[n + 1].question
                  /\ after.answers = before.answers
                  /\ after.scores = before.scores
                  /\ after.state = before.state
                  /\ after.current_question_index
                        = before.current_question_index]_vars

\* the second of two next_question calls has returned
C21_Witness ==
    /\ ret.op = "next_question"
    /\ ret.outcome.raised = None
    /\ ret.sid \in sessions
    /\ ret.outcome.value.next_question_id = 2
    /\ heap[ret.sid].current_question_index = 2
    /\ heap[ret.sid].answers = <<>>

\* C22: with one call at a time, start_interview puts one session under an
\* id never used before into the store and asks the Question Generator for a
\* question on topics[0] ("general" with no topics) with no previous
\* questions; when it returns, the session is in_progress with that one
\* question, of id 0, no answers and the cursor at 0, and the session_id and
\* question_id returned are those of the session and the question.
C22_StartCreatesSession ==
    [][/\ \A t \in Tasks :
            (tasks[t] = Idle /\ tasks'[t].op = "start_interview") =>
                LET sid == tasks'[t].sid
                IN  /\ sid \notin 1..nextId
                    /\ sessions' = sessions \cup {sid}
                    /\ \A other \in sessions : heap'[other] = heap[other]
                    /\ tasks'[t].previous_questions = <<>>
                    /\ tasks'[t].topic =
                          IF tasks'[t].request.topics # <<>>
                          THEN tasks'[t].request.topics[1] ELSE "general"
       /\ (ret'.op = "start_interview" /\ ret'.outcome.raised = None) =>
              LET sid == ret'.sid
                  s == heap'[sid]
                  result == ret'.outcome.value
              IN  /\ sid \in sessions'
                  /\ sessions' = sessions
                  /\ s.state = "in_progress"
                  /\ Len(s.questions) = 1
                  /\ s.questions[1].id = 0
                  /\ s.questions[1].question.previous = <<>>
                  /\ s.questions[1].question.topic =
                        IF s.topics # <<>> THEN s.topics[1] ELSE "general"
                  /\ s.answers = <<>>
                  /\ s.scores = <<>>
                  /\ s.current_question_index = 0
                  /\ result.session_id = sid
                  /\ result.question_id = 0
                  /\ result.question = s.questions[1].question]_vars

\* a second interview started beside the first
C22_Witness ==
    /\ ret.op = "start_interview"
    /\ ret.outcome.raised = None
    /\ ret.sid = 2
    /\ sessions = {1, 2}
    /\ heap[2].questions # <<>>

\* C24: every question that next_question appended (every question but the
\* first) was requested from the Question Generator with the topic that the
\* session records on it.
C24_RequestedTopicIsRecorded ==
    \A sid \in DOMAIN heap :
        \A i \in 2..Len(heap[sid].questions) :
            heap[sid].questions[i].question.topic = heap[sid].questions[i].topic

\* C25: in every reachable state no session holds more than MAX_QUESTIONS
\* answers, so that the remaining count is not negative and no percentage
\* is above 100.
C25_AnswersWithinCap ==
    \A sid \in sessions :
        /\ Len(heap[sid].answers) <= MAX_QUESTIONS
        /\ Session_get_progress(heap[sid]).remaining_questions >= 0

\* C26: in every reachable state, the states in which coroutines are
\* suspended included, a session has MAX_QUESTIONS answers or more exactly
\* when its state is completed; the is_complete and the state that a status
\* request returns together agree.
C26_CompleteIffCompleted ==
    /\ \A sid \in DOMAIN heap :
          (Len(heap[sid].answers) >= MAX_QUESTIONS)
              <=> (heap[sid].state = "completed")
    /\ (ret.op = "get_session_status" /\ ret.outcome.raised = None) =>
          /\ ret.outcome.value.is_complete
                <=> (ret.outcome.value.state = "completed")
          /\ ret.outcome.value.state = heap[ret.sid].state

\* the status of a completed session while a call on it is suspended
C26_Witness ==
    /\ ret.op = "get_session_status"
    /\ ret.outcome.raised = None
    /\ ret.outcome.value.is_complete
    /\ \E t \in Tasks : tasks[t] # Idle /\ tasks[t].sid = ret.sid

\* C27: when interviews are driven by start_interview and submit_answer
\* alone, in any interleaving, no session ever has more than MAX_QUESTIONS
\* questions, and a completed session with no call waiting for the Question
\* Generator is appended no further question.
C27_QuestionsWithinCap ==
    [][/\ \A sid \in DOMAIN heap' :
            Len(heap'[sid].questions) <= MAX_QUESTIONS
       /\ \A sid \in (DOMAIN heap) \cap (DOMAIN heap') :
            ( /\ heap[sid].state = "completed"
              /\ \A t \in Tasks :
                    tasks[t].sid = sid => tasks[t].pc # "generate_question" )
            => /\ heap'[sid].questions = heap[sid].questions
               /\ \A t \in Tasks :
                     tasks'[t].sid = sid =>
                         tasks'[t].pc # "generate_question"]_vars

\* a session completed by one submit_answer while another still waits for
\* its next question
C27_Witness ==
    \E sid \in sessions :
        /\ heap[sid].state = "completed"
        /\ \E t \in Tasks :
              /\ tasks[t].op = "submit_answer"
              /\ tasks[t].sid = sid
              /\ tasks[t].pc = "generate_question"

\* C28: with one call at a time, a submit_answer that fails leaves the
\* session as it was before the call: in particular it holds no answer and
\* no score of that call.
C28_FailedSubmitLeavesSession ==
    [][\A t \in Tasks :
          ( /\ tasks[t].op = "submit_answer"
            /\ tasks'[t] = Idle
            /\ ret'.outcome.raised # None
            /\ ret'.sid \in sessions ) =>
              IF tasks[t].pc = "generate_feedback"
              THEN heap' = heap
              ELSE LET recorded == tasks[t].result.progress.answered_questions
                   IN  /\ Len(heap'[ret'.sid].answers) = recorded - 1
                       /\ Len(heap'[ret'.sid].scores) = recorded - 1]_vars

\* C29: whenever no start_interview is in flight, every session of the store
\* has at least one question (a start_interview whose Question Generator
\* failed has left no session behind).
C29_NoSessionWithoutQuestion ==
    (\A t \in Tasks : tasks[t].op # "start_interview") =>
        \A sid \in sessions : heap[sid].questions # <<>>

\* C30: in every state in which no call on a session is in flight and the
\* session has a question, the cursor is at the last question, so that
\* get_current_question returns it.
C30_CursorAtLastQuestion ==
    \A sid \in sessions :
        ( /\ \A t \in Tasks : tasks[t].sid # sid
          /\ heap[sid].questions # <<>> ) =>
            /\ heap[sid].current_question_index = Len(heap[sid].questions) - 1
            /\ Session_get_current_question(heap[sid])
                  = heap[sid].questions[Len(heap[sid].questions)]

\* the answers whose reply is no JSON object with a number, or a numeral, for
\* its score
NoUsableScore ==
    { "bad_score", "null_score", "no_overall", "scores_number",
      "only_feedback", "list", "string", "number", "null", "prose",
      "prose_fence", "fenced_prose", "blank" }

\* the answers whose reply has no feedback text to extract, each with the
\* raw text of the reply: the reply without the whitespace around it, and of
\* a reply that begins with a code fence what is inside the fence
NoFeedbackText ==
    [ text_score |-> <<"{\"score\": \"8\"}">>,
      no_overall |-> <<"{\"scores\": {}, \"feedback\": \"\"}">>,
      list |-> <<"[\"score\"]">>,
      string |-> <<"\"score\"">>,
      number |-> <<"8">>,
      null |-> <<"null">>,
      prose |-> <<"Great", " ", "answer">>,
      prose_fence |-> <<"Here", " ", Fence, "json",
                        "{\"score\": 8, \"feedback\": \"good\"}", Fence>>,
      fenced_prose |-> <<"Great", " ", "answer">>,
      blank |-> <<>> ]

\* C23: no submit_answer fails with an exception of the parsing of the
\* model's reply; an answer whose reply is no JSON object with a usable
\* numeric score is recorded with score 5, an answer whose reply has no
\* feedback text to extract is recorded with the raw text (the reply without
\* surrounding whitespace and code fence) as feedback, a score of 15 is
\* recorded as 15, and what the session records and the call returns is the
\* score and feedback that generate_feedback returned.
C23_FeedbackFallback ==
    /\ \A sid \in DOMAIN heap :
          \A i \in 1..Len(heap[sid].answers) :
              LET a == heap[sid].answers[i]
                  returned == generate_feedback(Replies[a.answer]).value
              IN  /\ a.score = returned.score
                  /\ a.feedback = returned.feedback
                  /\ heap[sid].scores[i] = a.score
                  /\ a.answer \in NoUsableScore => a.score = 5
                  /\ a.answer \in DOMAIN NoFeedbackText =>
                        a.feedback = NoFeedbackText[a.answer]
                  /\ a.answer = "fence_open" => a.score = 15
    /\ ret.op = "submit_answer" =>
          /\ ret.outcome.raised \notin {JSONDecodeError, TypeError, FloatError}
          /\ ret.outcome.raised = None =>
                LET returned == generate_feedback(Replies[ret.args.answer]).value
                IN  /\ ret.outcome.value.score = returned.score
                    /\ ret.outcome.value.feedback = returned.feedback

\* a score of 15 recorded as it is, then a fenced reply that is no JSON
\* recorded with score 5 and the text inside the fence
C23_Witness ==
    /\ ret.op = "submit_answer"
    /\ ret.outcome.raised = None
    /\ ret.args.answer = "fenced_prose"
    /\ ret.outcome.value.score = 5
    /\ \E sid \in sessions :
          /\ Len(heap[sid].answers) = 2
          /\ heap[sid].answers[1].answer = "fence_open"
          /\ heap[sid].answers[1].score = 15
          /\ heap[sid].answers[2].answer = "fenced_prose"
          /\ heap[sid].answers[2].score = 5
          /\ heap[sid].answers[2].feedback = <<"Great", " ", "answer">>

\* C31: a submit_answer or start_interview that was suspended at a generator
\* call when its session was deleted does not return a result afterwards
\* (it fails), and no call but delete_session returns a result for a session
\* id that is not in the store.
C31_DeletedSessionFailsCalls ==
    [][/\ \A t \in Tasks :
            ( /\ tasks[t].op \in {"submit_answer", "start_interview"}
              /\ tasks[t].sid \notin sessions
              /\ tasks'[t] = Idle ) =>
                ret'.outcome.raised # None
       /\ ( /\ ret = NoRet
            /\ ret' # NoRet
            /\ ret'.op # "delete_session"
            /\ ret'.sid \notin sessions' ) =>
                ret'.outcome.raised # None]_vars

=============================================================================
